---- MODULE Spec2Model ----
(***************************************************************************)
(* A model of the ga crate (src/src/lib.rs): Population::new and           *)
(* Population::evolve, run by a pool of workers over the per-individual    *)
(* closures, and of the two drivers' use of it (src/src/bin/*.rs).         *)
(*                                                                         *)
(* The engine is generic in the Individual, the Generator and the fitness  *)
(* function.  They are inputs here, drawn in Init from Domains: a domain   *)
(* gives the values of its Individual type, its fitness function (a table  *)
(* in Domains, a randomised function in RandomDomains) and the offspring   *)
(* Generator::evolve makes of two parents.  generate() and mutate() return *)
(* whichever individual the thread-local random source makes them return.  *)
(***************************************************************************)
EXTENDS Integers, Sequences, FiniteSets

\* ---------------------------------------------------------------- bounds
\* Population::new is called with a size in 0..MaxSize.
MaxSize == 11
\* The caller calls evolve at most MaxEvolves times.
MaxEvolves == 2
\* With a fitness function of special values, the size is in 0..MaxSpecialSize.
MaxSpecialSize == 5
\* With functions that may panic, the size is in 0..MaxPanicSize.
MaxPanicSize == 5
\* The pool has 1..MaxThreads workers; with functions that may panic,
\* 1..MaxPanicThreads.
MaxThreads == 2
MaxPanicThreads == 3
\* The drivers are run with --population-size in 0..MaxPopulation and
\* --max-generations in 0..MaxGenerations.
MaxPopulation == 3
MaxGenerations == 3
\* SVM::execute is called with max_steps in -1..MaxSteps, on an SVM made with
\* 0 or MaxWords words of memory and a stack_size of 0 or MaxStackSize.
MaxSteps == 5
MaxWords == 2
MaxStackSize == 1
\* The individuals of ga_calc: a CalcIndividual is mutated at most
\* MaxMutations times, and one of more than MaxMixed opcodes is made of
\* equal opcodes.
MaxMutations == 4
MaxMixed == 5

\* No individual: the unused argument of a call, the individual of a vacant slot.
NoInd == -1

VARIABLES
    pc,          \* where the caller is: "start", "new", "new_returned", "ready",
                 \* "evolve", "evolve_returned", "panicked"
    size,        \* the size argument of Population::new
    dom,         \* the domain the engine is instantiated with, see Domains
    pop,         \* the caller's Population: its individuals, a sequence of GradedIndividual
    tasks,       \* evolve's interleaved iterator: the closure that writes each slot
                 \* (kept, like calls, until the caller stores what was returned)
    population,  \* the local Vec of new/evolve that collect_into_vec fills, slot by slot
    calls,       \* per slot of the running call, the trait and fitness calls its closure made
    returned,    \* the Population evolve returned, before the caller stores it
    cause,       \* why the call panicked, "none" otherwise
    evolves,     \* the number of evolve calls the caller has made
    \* the pool collect_into_vec runs the closures on
    threads,     \* current_num_threads(): the number of workers of the pool
    inpool,      \* whether the caller of new and evolve is a worker of the pool
    deque,       \* per worker, the jobs it has pushed and nobody has taken, oldest first
    leaf,        \* per worker, <<lo, hi>>: the slots lo..hi it is folding and has
                 \* yet to run the closures of, <<>> when it has no job
    \* the drivers (src/src/bin): main of ga_strings and of ga_calc
    driver,          \* "strings" or "calc"
    main_pc,         \* where main is: "start", "loop", "evolve", "after", "done", "panicked"
    population_size, \* args.population_size
    max_generations, \* args.max_generations
    g,               \* the loop variable of for g in 1..args.max_generations
    generations,     \* let mut generations
    need_matches,    \* let mut need_matches (ga_calc)
    pop_len,         \* pop.individuals.len()
    best,            \* whether pop.individuals.first() reaches the driver's threshold:
                     \* "none" (no first), "low", "high"
    streak,          \* a history of the loop's checks: how many of them in a row, up
                     \* to the latest, found the first fitness at the threshold
    \* the SVM of ga_calc: SVM::execute(&mut self, program, max_steps)
    vm_pc,           \* where the call is: "idle", "execute", "returned", "panicked"
    program,         \* program: &Vec<OpCode>
    max_steps,       \* max_steps: i32
    vm,              \* self: memory, stack, the capacity of the stack, stats
    ip,              \* let mut ip
    done,            \* let mut done
    remaining_steps, \* let mut remaining_steps
    exit_type,       \* let mut exit_type
    \* the individuals of ga_calc: CalcIndividual and its Generator
    calc_pc,         \* where the latest individual is: "none" (not made), "made",
                     \* "scoring" (the fitness function runs on it), "scored"
    subject,         \* the CalcIndividual made last
    parent,          \* the CalcIndividual mutate was called on last, as the call left it
    mutations,       \* the number of mutate calls made
    \* the fitness function of ga_strings: string_fitness(phrase) and its closure
    str_pc,          \* "idle", "start", "made" (the closure is made), "scored", "panicked"
    phrase,          \* phrase: String, its bytes
    data,            \* the Vec the closure owns
    s_genes,         \* s.genes of the closure's argument
    s_score          \* let mut score of the closure, as it is returned

pvars == <<threads, inpool, deque, leaf>>
evars == <<pc, size, dom, pop, tasks, population, calls, returned, cause, evolves, pvars>>
dvars == <<driver, main_pc, population_size, max_generations, g, generations,
           need_matches, pop_len, best, streak>>
svars == <<vm_pc, program, max_steps, vm, ip, done, remaining_steps, exit_type>>
\* The variables outside the engine and the drivers' main.
cvars == <<calc_pc, subject, parent, mutations>>
gvars == <<str_pc, phrase, data, s_genes, s_score>>
xvars == <<svars, cvars, gvars>>
vars == <<evars, dvars, xvars>>

\* ------------------------------------------------------------ data types
\* GradedIndividual::new
GradedIndividual(individual, fitness) == [individual |-> individual, fitness |-> fitness]

\* A slot of the collect target that no closure has written yet.
Vacant == [individual |-> NoInd, fitness |-> 0]

\* One call of a trait method or of the fitness function, as a closure makes it.
Call(op, a, b) == [op |-> op, a |-> a, b |-> b]

\* ------------------------------------------------------------------ f32
\* A fitness is an f32.  An integer of magnitude below 2^24 stands for
\* itself; the four values below, which no f32 equals, stand for the
\* infinities and for the quiet NaN of either sign.
INFINITY == 16777217
NEG_INFINITY == -16777217
NAN == 16777219
NEG_NAN == -16777219

RECURSIVE Pow2(_)
Pow2(k) == IF k = 0 THEN 1 ELSE 2 * Pow2(k - 1)

\* The number of bits of n > 0 (0 for 0).
RECURSIVE BitLen(_)
BitLen(n) == IF n = 0 THEN 0 ELSE 1 + BitLen(n \div 2)

is_nan(x) == x \in {NAN, NEG_NAN}

Abs(x) == IF x < 0 THEN -x ELSE x

\* f32::to_bits: the sign bit, and the 31 bits of exponent and mantissa as
\* a number.
to_bits(x) ==
    LET m == Abs(x)
        e == BitLen(m) - 1
    IN  [sign |-> IF x < 0 THEN 1 ELSE 0,
         rest |-> CASE m = 0 -> 0
                    [] m = INFINITY -> 255 * Pow2(23)
                    [] m = NAN -> 255 * Pow2(23) + Pow2(22)
                    [] OTHER -> (e + 127) * Pow2(23) + (m - Pow2(e)) * Pow2(23 - e)]

\* The bits as total_cmp compares them: as an i32, the 31 low bits flipped
\* when the sign bit is set (left ^= (((left >> 31) as u32) >> 1) as i32).
TotalOrderKey(bits) == IF bits.sign = 0 THEN bits.rest ELSE -1 - bits.rest

\* ------------------------------------------------------------- the sort
\* A comparison by partial_cmp, a NaN comparing Equal to everything.
partial_cmp_or_equal(x, y) ==
    IF is_nan(x) \/ is_nan(y) THEN 0 ELSE IF x < y THEN -1 ELSE IF x > y THEN 1 ELSE 0

\* f32::total_cmp: -1 (Less), 0 (Equal), 1 (Greater).
total_cmp(x, y) ==
    LET left == TotalOrderKey(to_bits(x))
        right == TotalOrderKey(to_bits(y))
    IN  IF left < right THEN -1 ELSE IF left > right THEN 1 ELSE 0

\* SortCmp with its operands swapped: an ascending sort.
SortCmpAscending(a, b) == total_cmp(a.fitness, b.fitness)

\* The comparator handed to par_sort_by: |a, b| b.fitness.total_cmp(&a.fitness).
\* a goes before b when it is Less.
SortCmp(a, b) == total_cmp(b.fitness, a.fitness)

\* Insert e into the sorted sequence s after every element that is not
\* greater than it under SortCmp (the sort is stable).
RECURSIVE InsertSorted(_, _)
InsertSorted(s, e) ==
    IF s = <<>> THEN <<e>>
    ELSE IF SortCmp(e, Head(s)) < 0 THEN <<e>> \o s
    ELSE <<Head(s)>> \o InsertSorted(Tail(s), e)

\* par_sort_by: a stable sort by SortCmp.
RECURSIVE par_sort_by(_)
par_sort_by(s) ==
    IF s = <<>> THEN <<>>
    ELSE InsertSorted(par_sort_by(SubSeq(s, 1, Len(s) - 1)), s[Len(s)])

\* ----------------------------------------------------------- copy_count
\* 0.1f32 is TenthMant * 2^-TenthExp.
TenthMant == 13421773
TenthExp == 27
\* An f32 keeps MantBits significant bits.
MantBits == 24

\* m rounded to MantBits significant bits, ties to even: the f32 nearest to
\* m * 2^-TenthExp, on the same scale.
RoundF32(m) ==
    IF BitLen(m) <= MantBits THEN m
    ELSE LET unit == Pow2(BitLen(m) - MantBits)
             q == m \div unit
             r == m % unit
             up == (2 * r > unit) \/ (2 * r = unit /\ q % 2 = 1)
         IN  (IF up THEN q + 1 ELSE q) * unit

\* No entry is copied over.
copy_count_none(len) == 0

\* (self.individuals.len() as f32 * 0.1) as usize
copy_count(len) == RoundF32(len * TenthMant) \div Pow2(TenthExp)

\* ----------------------------------------------------------- the streams
\* What one closure of evolve works on: its stream and the index in
\* self.individuals of the entry it is given.
Task(kind, src) == [kind |-> kind, src |-> src]

\* The number of elements of slice.par_iter().step_by(2), the slice having len elements.
StepBy2Len(len) == (len + 1) \div 2

\* self.individuals.par_iter().take(copy_count)
copy_it(n, c) == [j \in 1 .. (IF c < n THEN c ELSE n) |-> Task("copy", j - 1)]

\* mutate_it without step_by(2): every entry from copy_count on.
mutate_it_every(n, c) ==
    [j \in 1 .. (n - c) |-> Task("mutate", c + (j - 1))]

\* self.individuals[copy_count..].par_iter().step_by(2)
mutate_it(n, c) ==
    [j \in 1 .. StepBy2Len(n - c) |-> Task("mutate", c + 2 * (j - 1))]

\* evolve_it over the slice of mutate_it: self.individuals[copy_count..].
evolve_it_from_copy_count(n, c) ==
    [j \in 1 .. StepBy2Len(n - c) |-> [kind |-> "evolve", src |-> c + 2 * (j - 1)]]

\* self.individuals[copy_count+1..].par_iter().step_by(2)
evolve_it(n, c) ==
    [j \in 1 .. StepBy2Len(n - (c + 1)) |-> Task("evolve", c + 1 + 2 * (j - 1))]

\* Whether the two slices of evolve are within self.individuals; slicing
\* from past the end panics.
SlicesInRange(n, c) == c <= n /\ c + 1 <= n

Min(a, b) == IF a < b THEN a ELSE b

\* a.interleave(b): a[1], b[1], a[2], b[2], ... and, once one of them is
\* exhausted, the rest of the other.
interleave(a, b) ==
    LET m == Min(Len(a), Len(b))
    IN  [k \in 1 .. (Len(a) + Len(b)) |->
            IF k <= 2 * m
            THEN (IF k % 2 = 1 THEN a[(k + 1) \div 2] ELSE b[k \div 2])
            ELSE (IF Len(a) > m THEN a[k - m] ELSE b[k - m])]

\* copy_it.interleave(mutate_it).interleave(evolve_it): slot k of the
\* collected Vec is written by the closure EvolveTasks(n)[k].
EvolveTasks(n, c) == interleave(interleave(copy_it(n, c), mutate_it(n, c)), evolve_it(n, c))

\* The number of elements of the range (0..size).
RangeLenFromZero(s) == s

\* The number of elements of the range (1..size).
RangeLen(s) == IF s > 1 THEN s - 1 ELSE 0

\* ------------------------------------------------------------ the workers
\* collect_into_vec hands the slots to the pool (bridge_producer_consumer).
\* A job is a run of slots.  The worker that has it splits it in halves as
\* long as its splitter lets it: it pushes the second half on its deque and
\* goes on with the first (join_context).  A job that is not split is
\* folded: the worker runs the closures of its slots in index order.  Then
\* the worker pops the job it pushed last, unless another worker, one with
\* nothing to do, has stolen it: a worker steals the oldest job of a deque.

\* The closure of slot k has run: it has written the slot, or it has
\* panicked in a call it made.
HasRun(k) == population[k] # Vacant \/ calls[k] # <<>>

\* Whether the closure of slot k has panicked.
HasPanicked(k) == population[k] = Vacant /\ calls[k] # <<>>

Workers == 1 .. threads

\* A pool with nothing to do.
NoJobs == [w \in Workers |-> <<>>]

\* The second half lo..hi of a job that started at slot plo, as join_context
\* pushes it: splits is what its splitter has left, injected whether the
\* join was entered from outside the pool.
Job(lo, hi, splits, injected, plo) ==
    [lo |-> lo, hi |-> hi, splits |-> splits, injected |-> injected, plo |-> plo]

\* Splitter::try_split: what the splitter of a job that is split has left.
\* A migrated job starts again from the number of workers, another job
\* halves what it has.
try_split(splits, migrated) ==
    IF migrated
    THEN (IF threads > splits \div 2 THEN threads ELSE splits \div 2)
    ELSE splits \div 2

\* helper of bridge_producer_consumer on the job lo..hi: the job is split
\* when it has two slots or more and either is migrated or has splits
\* left; the second halves are pushed, oldest first, and the first half
\* that is not split is the leaf the worker folds.  injected is passed to
\* the halves of the first join only, the later ones being made by a worker.
RECURSIVE helper(_, _, _, _, _)
helper(lo, hi, splits, migrated, injected) ==
    IF (hi - lo + 1) \div 2 >= 1 /\ (migrated \/ splits > 0)
    THEN LET mid == (hi - lo + 1) \div 2
             left == helper(lo, lo + mid - 1, try_split(splits, migrated), injected, FALSE)
         IN  [pushed |-> <<Job(lo + mid, hi, try_split(splits, migrated), injected, lo)>>
                             \o left.pushed,
              leaf |-> left.leaf]
    ELSE [pushed |-> <<>>, leaf |-> IF lo <= hi THEN <<lo, hi>> ELSE <<>>]

\* bridge_producer_consumer on len slots: the splitter starts with as many
\* splits as the pool has workers, the job is not migrated, and its first
\* join is injected when the caller is not a worker.
bridge(len) == helper(1, len, threads, FALSE, ~inpool)

\* The pool as the call starts: worker 1, which stands for the worker that
\* takes the call, has split the slots and has its first leaf.
PoolStarts(len) ==
    /\ deque' = [NoJobs EXCEPT ![1] = bridge(len).pushed]
    /\ leaf' = [NoJobs EXCEPT ![1] = bridge(len).leaf]

\* Whether k is the slot whose closure worker w runs next.
IsNextSlot(w, k) == leaf[w] # <<>> /\ leaf[w][1] = k

\* Whether a closure of the slots lo..hi has panicked, the closure of slot
\* k being the one that has just run, and ok whether it returned.
PanicIn(lo, hi, k, ok) ==
    \E i \in lo .. hi : IF i = k THEN ~ok ELSE HasPanicked(i)

\* Worker w has run the closure of slot k, the first of its leaf, which
\* returned (ok) or panicked.  If it returned w goes on with the leaf; a
\* panic ends the fold, the closures of the other slots of the leaf never
\* run.  With its leaf done, w pops the job it pushed last: it runs it
\* inline (run_inline(injected)), or, when the first half has panicked, as
\* a job it found while it waited (join_recover_from_panic), migrated.
WorkerGoesOn(w, k, ok) ==
    IF ok /\ k < leaf[w][2]
    THEN /\ leaf' = [leaf EXCEPT ![w] = <<k + 1, leaf[w][2]>>]
         /\ UNCHANGED deque
    ELSE IF deque[w] # <<>>
    THEN LET job == deque[w][Len(deque[w])]
             migrated == job.injected \/ PanicIn(job.plo, job.lo - 1, k, ok)
             next == helper(job.lo, job.hi, job.splits, migrated, FALSE)
         IN  /\ deque' = [deque EXCEPT ![w] = SubSeq(deque[w], 1, Len(deque[w]) - 1)
                                                  \o next.pushed]
             /\ leaf' = [leaf EXCEPT ![w] = next.leaf]
    ELSE /\ leaf' = [leaf EXCEPT ![w] = <<>>]
         /\ UNCHANGED deque

\* A worker with nothing to do steals the oldest job of another worker's
\* deque, which makes the job migrated, and splits it.
Steal ==
    /\ pc \in {"new", "evolve"}
    /\ \E thief \in Workers : \E victim \in Workers :
       /\ leaf[thief] = <<>>
       /\ deque[victim] # <<>>
       /\ LET job == Head(deque[victim])
              next == helper(job.lo, job.hi, job.splits, TRUE, FALSE)
          IN  /\ deque' = [deque EXCEPT ![victim] = Tail(deque[victim]),
                                        ![thief] = next.pushed]
              /\ leaf' = [leaf EXCEPT ![thief] = next.leaf]
    /\ UNCHANGED <<pc, size, dom, pop, tasks, population, calls, returned, cause,
                   evolves, threads, inpool, dvars, xvars>>

\* Whether the pool is done: no worker has a job.
PoolDone == \A w \in Workers : leaf[w] = <<>>

AllFilled == \A k \in 1 .. Len(population) : population[k] # Vacant

\* --------------------------------------------------- the fitness function
\* The domains the engine is instantiated with:
\*   inds    the values of the Individual type I;
\*   random  whether the fitness function draws on a random source;
\*   fit     the values the fitness function returns;
\*   tab     the fitness function when it is not random;
\*   cross   Generator::evolve(a, b);
\*   mut     the individuals x.mutate() may return;
\* Domains: two individuals, each the mutation of the other, scored by a
\* fitness function that tells them apart; the offspring of two parents is
\* the fitter individual only if both parents are.
Domains ==
    {[inds |-> {0, 1}, random |-> FALSE, fit |-> {0, 1}, tab |-> <<0, 1>>,
      mut |-> <<{1}, {0}>>,
      cross |-> [p \in {0, 1} \X {0, 1} |-> p[1] * p[2]]]}

\* RandomDomains: one individual, scored at random, or always as NaN.
RandomDomains ==
    {[inds |-> {0}, random |-> TRUE, fit |-> vals, tab |-> <<0>>,
      mut |-> <<{0}>>,
      cross |-> [p \in {0} \X {0} |-> 0]] : vals \in {{0, 1}, {NAN}}}

\* SpecialDomains: six individuals, each scored by another of the special
\* and ordinary values of an f32.
SpecialDomains ==
    {[inds |-> 0 .. 5, random |-> FALSE,
      fit |-> {NEG_NAN, NEG_INFINITY, 0, 1, INFINITY, NAN},
      tab |-> <<NEG_INFINITY, NAN, 0, NEG_NAN, 1, INFINITY>>,
      mut |-> [x \in 1 .. 6 |-> {x % 6}],
      cross |-> [p \in (0 .. 5) \X (0 .. 5) |-> (p[1] + p[2]) % 6]]}

\* The values fitness(&x) may return.
fitness(x) == IF dom.random THEN dom.fit ELSE {dom.tab[x + 1]}

\* The individuals generator.generate() may return.
generate == dom.inds

\* The individuals x.mutate() may return.
mutate(x) == dom.mut[x + 1]

\* generator.evolve(&a, &b)
evolve(a, b) == dom.cross[<<a, b>>]

\* ---------------------------------------------------------------- Init
\* The engine before Population::new is called.
InitEngine ==
    /\ pc = "start"
    /\ size = 0
    /\ pop = <<>>
    /\ tasks = <<>>
    /\ population = <<>>
    /\ calls = <<>>
    /\ returned = <<>>
    /\ cause = "none"
    /\ evolves = 0

\* The pool before a call: it has 1..most workers, none with a job, and
\* whether the caller is one of them is in callers.
InitPool(most, callers) ==
    /\ threads \in 1 .. most
    /\ inpool \in callers
    /\ deque = NoJobs
    /\ leaf = NoJobs

\* A driver before main runs.
InitMain ==
    /\ main_pc = "start"
    /\ g = 0
    /\ generations = 0
    /\ need_matches = 0
    /\ pop_len = 0
    /\ best = "none"
    /\ streak = 0

\* An SVM nobody has called.
IdleSVM ==
    /\ vm_pc = "idle"
    /\ program = <<>>
    /\ max_steps = 0
    /\ vm = [memory |-> <<>>, stack |-> <<>>, capacity |-> 0,
             stats |-> [instructions_issued |-> 0, invalid_instructions |-> 0]]
    /\ ip = 0
    /\ done = FALSE
    /\ remaining_steps = 0
    /\ exit_type = "Timeout"

\* No CalcIndividual made.
IdleCalc ==
    /\ calc_pc = "none"
    /\ subject = [ops |-> <<>>]
    /\ parent = [ops |-> <<>>]
    /\ mutations = 0

\* string_fitness not called.
IdleStrings ==
    /\ str_pc = "idle"
    /\ phrase = <<>>
    /\ data = <<>>
    /\ s_genes = <<>>
    /\ s_score = 0

\* Nothing but the engine or a driver runs.
InitOther == IdleSVM /\ IdleCalc /\ IdleStrings

\* The engine, called by any caller, in any domain.
Init ==
    /\ InitEngine
    /\ InitPool(MaxThreads, BOOLEAN)
    /\ dom \in Domains
    /\ InitMain
    /\ driver = "none"
    /\ population_size = 0
    /\ max_generations = 0
    /\ InitOther

\* A panic in a closure, or in the slicing, unwinds the call: the local Vec
\* is dropped and nothing is returned.
Unwind(why) ==
    /\ pc' = "panicked"
    /\ cause' = why
    /\ tasks' = <<>>
    /\ population' = <<>>
    /\ calls' = <<>>
    /\ UNCHANGED <<size, dom, pop, returned, pvars>>

\* ------------------------------------------------------- Population::new
\* The caller calls Population::new(s, ...): the Vec is created and the
\* range (1..s) handed to the pool.
NewCall(s) ==
    /\ pc = "start"
    /\ size' = s
    /\ population' = [k \in 1 .. RangeLen(s) |-> Vacant]
    /\ calls' = [k \in 1 .. RangeLen(s) |-> <<>>]
    /\ PoolStarts(RangeLen(s))
    /\ pc' = "new"
    /\ UNCHANGED <<dom, pop, tasks, returned, cause, evolves, threads, inpool, dvars, xvars>>

\* A worker runs the closure of new for the next slot of its leaf.
NewTask ==
    /\ pc = "new"
    /\ \E w \in Workers : \E k \in 1 .. Len(population) :
       /\ IsNextSlot(w, k)
       /\ WorkerGoesOn(w, k, TRUE)
       /\ \E individual \in generate :
          \E score \in fitness(individual) :
             /\ population' = [population EXCEPT ![k] = GradedIndividual(individual, score)]
             /\ calls' = [calls EXCEPT ![k] =
                             <<Call("generate", NoInd, NoInd), Call("fitness", individual, NoInd)>>]
    /\ UNCHANGED <<pc, size, dom, pop, tasks, returned, cause, evolves, threads, inpool,
                   dvars, xvars>>

\* The call whose panic the pool resumes once it is done: join resumes the
\* panic of its first half before that of its second, so that of the
\* first slot whose closure panicked, the last call it made.
FirstPanic ==
    LET k == CHOOSE k \in 1 .. Len(population) :
                 HasPanicked(k) /\ \A j \in 1 .. (k - 1) : ~HasPanicked(j)
    IN  calls[k][Len(calls[k])].op

\* Whether the pool is done with the jobs, a closure having panicked: join
\* runs both its halves whatever happens, so every job has run, each to
\* its end or to the closure of its leaf that panicked.
JoinedWithPanic ==
    /\ PoolDone
    /\ \E k \in 1 .. Len(population) : HasPanicked(k)

\* generator.generate() or fitness(&individual) panics in the closure of a
\* slot, which is left unwritten, as are the slots left of the leaf; the
\* pool catches the panic and goes on with the other jobs.
NewTaskPanic ==
    /\ pc = "new"
    /\ \E w \in Workers : \E k \in 1 .. Len(population) :
       /\ IsNextSlot(w, k)
       /\ WorkerGoesOn(w, k, FALSE)
       /\ \/ calls' = [calls EXCEPT ![k] = <<Call("generate", NoInd, NoInd)>>]
          \/ \E individual \in generate :
                calls' = [calls EXCEPT ![k] =
                             <<Call("generate", NoInd, NoInd),
                               Call("fitness", individual, NoInd)>>]
    /\ UNCHANGED <<pc, size, dom, pop, tasks, population, returned, cause, evolves,
                   threads, inpool, dvars, xvars>>

\* The pool is done and a closure of new has panicked: the pool resumes the
\* panic in the caller of collect_into_vec, and new unwinds.
NewUnwind ==
    /\ pc = "new"
    /\ JoinedWithPanic
    /\ Unwind(FirstPanic)
    /\ UNCHANGED <<evolves, dvars, xvars>>

\* Every closure has run: the Vec is sorted and returned as the Population.
NewReturn ==
    /\ pc = "new"
    /\ AllFilled
    /\ returned' = par_sort_by(population)
    /\ population' = <<>>
    /\ pc' = "new_returned"
    /\ UNCHANGED <<size, dom, pop, tasks, calls, cause, evolves, pvars, dvars, xvars>>

\* The caller stores the Population it was returned (let mut pop = ...; pop = pop.evolve(...)).
Store ==
    /\ pc \in {"new_returned", "evolve_returned"}
    /\ pop' = returned
    /\ returned' = <<>>
    /\ tasks' = <<>>
    /\ calls' = <<>>
    /\ pc' = "ready"
    /\ UNCHANGED <<size, dom, population, cause, evolves, pvars, dvars, xvars>>

\* ---------------------------------------------------- Population::evolve
\* The caller calls pop.evolve(...): copy_count and the three streams are
\* set up, which panics when a slice starts past the end.
EvolveCall ==
    /\ pc = "ready"
    /\ evolves < MaxEvolves
    /\ evolves' = evolves + 1
    /\ UNCHANGED <<dvars, xvars>>
    /\ IF SlicesInRange(Len(pop), copy_count(Len(pop)))
       THEN /\ tasks' = EvolveTasks(Len(pop), copy_count(Len(pop)))
            /\ population' = [k \in 1 .. Len(tasks') |-> Vacant]
            /\ calls' = [k \in 1 .. Len(tasks') |-> <<>>]
            /\ PoolStarts(Len(tasks'))
            /\ pc' = "evolve"
            /\ UNCHANGED <<size, dom, pop, returned, cause, threads, inpool>>
       ELSE Unwind("slice")

\* CopyClosure scoring the copied individual again.
CopyClosureRescored(k, entry) ==
    \E score \in fitness(entry.individual) :
       /\ population' = [population EXCEPT ![k] = GradedIndividual(entry.individual, score)]
       /\ calls' = [calls EXCEPT ![k] = <<Call("fitness", entry.individual, NoInd)>>]

\* The closure of copy_it: (*entry).clone().
CopyClosure(k, entry) ==
    /\ population' = [population EXCEPT ![k] = entry]
    /\ UNCHANGED calls

\* MutateClosure scoring the entry and the mutated individual both.
MutateClosureTwice(k, entry) ==
    \E ind \in mutate(entry.individual) :
    \E old \in fitness(entry.individual) :
    \E score \in fitness(ind) :
       /\ population' = [population EXCEPT ![k] = GradedIndividual(ind, score)]
       /\ calls' = [calls EXCEPT ![k] =
                       <<Call("mutate", entry.individual, NoInd),
                         Call("fitness", entry.individual, NoInd),
                         Call("fitness", ind, NoInd)>>]

\* The closure of mutate_it: the mutated individual, with the score the
\* fitness function gives for entry.individual.
MutateClosure(k, entry) ==
    \E ind \in mutate(entry.individual) :
    \E score \in fitness(entry.individual) :
       /\ population' = [population EXCEPT ![k] = GradedIndividual(ind, score)]
       /\ calls' = [calls EXCEPT ![k] =
                       <<Call("mutate", entry.individual, NoInd),
                         Call("fitness", entry.individual, NoInd)>>]

\* The values r.gen_range(lo..hi) may return.
gen_range(lo, hi) == lo .. (hi - 1)

\* EvolveClosure scoring entry.individual, as the closure of mutate_it does.
EvolveClosureScoresEntry(k, entry) ==
    \E other \in {pop[other_index + 1].individual :
                    other_index \in gen_range(0, Len(pop))} :
    LET ind == evolve(entry.individual, other)
    IN  \E score \in fitness(entry.individual) :
           /\ population' = [population EXCEPT ![k] = GradedIndividual(ind, score)]
           /\ calls' = [calls EXCEPT ![k] =
                           <<Call("evolve", entry.individual, other),
                             Call("fitness", ind, NoInd)>>]

\* The closure of evolve_it: the offspring of entry and of a random entry
\* of self.individuals, scored.
EvolveClosure(k, entry) ==
    \E other \in {pop[other_index + 1].individual :
                    other_index \in gen_range(0, Len(pop))} :
    LET ind == evolve(entry.individual, other)
    IN  \E score \in fitness(ind) :
           /\ population' = [population EXCEPT ![k] = GradedIndividual(ind, score)]
           /\ calls' = [calls EXCEPT ![k] =
                           <<Call("evolve", entry.individual, other),
                             Call("fitness", ind, NoInd)>>]

\* A worker runs the closure of the next slot of its leaf.
EvolveTask ==
    /\ pc = "evolve"
    /\ \E w \in Workers : \E k \in 1 .. Len(population) :
       /\ IsNextSlot(w, k)
       /\ WorkerGoesOn(w, k, TRUE)
       /\ LET t == tasks[k]
              entry == pop[t.src + 1]
          IN  CASE t.kind = "copy" -> CopyClosure(k, entry)
             [] t.kind = "mutate" -> MutateClosure(k, entry)
             [] t.kind = "evolve" -> EvolveClosure(k, entry)
    /\ UNCHANGED <<pc, size, dom, pop, tasks, returned, cause, evolves, threads, inpool,
                   dvars, xvars>>

\* s without its element k.
RemoveAt(s, k) == SubSeq(s, 1, k - 1) \o SubSeq(s, k + 1, Len(s))

\* EvolveTaskPanic leaving out the individual whose closure failed, the
\* others going on.
EvolveTaskPanicSkipped ==
    /\ pc = "evolve"
    /\ \E w \in Workers : \E k \in 1 .. Len(population) :
       /\ IsNextSlot(w, k)
       /\ tasks[k].kind # "copy"
       /\ population' = RemoveAt(population, k)
       /\ tasks' = RemoveAt(tasks, k)
       /\ calls' = RemoveAt(calls, k)
       /\ cause' = "fitness"
    /\ UNCHANGED <<pc, size, dom, pop, returned, evolves, pvars, dvars, xvars>>

\* The calls a closure of each stream makes, any of which may panic.
CallsMade(kind) ==
    CASE kind = "copy" -> {}
      [] kind = "mutate" -> {"mutate", "fitness"}
      [] kind = "evolve" -> {"evolve", "fitness"}

\* The calls the closure of a stream has made when its call why panics,
\* entry being the entry it works on.
CallsUpTo(kind, why, entry) ==
    CASE kind = "mutate" /\ why = "mutate" ->
            {<<Call("mutate", entry.individual, NoInd)>>}
      [] kind = "mutate" /\ why = "fitness" ->
            {<<Call("mutate", entry.individual, NoInd),
               Call("fitness", entry.individual, NoInd)>>}
      [] kind = "evolve" ->
            {IF why = "evolve"
             THEN <<Call("evolve", entry.individual, other)>>
             ELSE <<Call("evolve", entry.individual, other),
                    Call("fitness", evolve(entry.individual, other), NoInd)>> :
                other \in {pop[other_index + 1].individual :
                              other_index \in gen_range(0, Len(pop))}}

\* mutate(), generator.evolve() or fitness() panics in the closure of a
\* slot, which is left unwritten, as are the slots left of the leaf; the
\* pool catches the panic and goes on with the other jobs.
EvolveTaskPanic ==
    /\ pc = "evolve"
    /\ \E w \in Workers : \E k \in 1 .. Len(population) :
       /\ IsNextSlot(w, k)
       /\ WorkerGoesOn(w, k, FALSE)
       /\ \E why \in CallsMade(tasks[k].kind) :
          \E made \in CallsUpTo(tasks[k].kind, why, pop[tasks[k].src + 1]) :
             calls' = [calls EXCEPT ![k] = made]
    /\ UNCHANGED <<pc, size, dom, pop, tasks, population, returned, cause, evolves,
                   threads, inpool, dvars, xvars>>

\* The pool is done and a closure of evolve has panicked: the pool resumes
\* the panic in the caller of collect_into_vec, and evolve unwinds.
EvolveUnwind ==
    /\ pc = "evolve"
    /\ JoinedWithPanic
    /\ Unwind(FirstPanic)
    /\ UNCHANGED <<evolves, dvars, xvars>>

\* EvolveReturn putting the new generation into self as well.
EvolveReturnInPlace ==
    /\ pc = "evolve"
    /\ AllFilled
    /\ returned' = par_sort_by(population)
    /\ pop' = returned'
    /\ population' = <<>>
    /\ pc' = "evolve_returned"
    /\ UNCHANGED <<size, dom, tasks, calls, cause, evolves, pvars, dvars, xvars>>

\* Every closure has run: the Vec is sorted and returned as the new Population.
EvolveReturn ==
    /\ pc = "evolve"
    /\ AllFilled
    /\ returned' = par_sort_by(population)
    /\ population' = <<>>
    /\ pc' = "evolve_returned"
    /\ UNCHANGED <<size, dom, pop, tasks, calls, cause, evolves, pvars, dvars, xvars>>

Next ==
    \/ \E s \in 0 .. MaxSize : NewCall(s)
    \/ Steal
    \/ NewTask
    \/ NewReturn
    \/ Store
    \/ EvolveCall
    \/ EvolveTask
    \/ EvolveReturn

Spec == Init /\ [][Next]_vars

\* The engine, called by any caller, with a randomised fitness function.
InitRandom ==
    /\ InitEngine
    /\ InitPool(MaxThreads, BOOLEAN)
    /\ dom \in RandomDomains
    /\ InitMain
    /\ driver = "none"
    /\ population_size = 0
    /\ max_generations = 0
    /\ InitOther

\* With a randomised fitness function new is called with one of RandomSizes.
RandomSizes == {0, 1, 2, MaxSize}

NextRandom ==
    \/ \E s \in RandomSizes : NewCall(s)
    \/ Steal
    \/ NewTask
    \/ NewReturn
    \/ Store
    \/ EvolveCall
    \/ EvolveTask
    \/ EvolveReturn

SpecRandom == InitRandom /\ [][NextRandom]_vars

\* The engine, called by any caller, with a fitness function that returns
\* infinite and NaN values.
InitSpecial ==
    /\ InitEngine
    /\ InitPool(MaxThreads, BOOLEAN)
    /\ dom \in SpecialDomains
    /\ InitMain
    /\ driver = "none"
    /\ population_size = 0
    /\ max_generations = 0
    /\ InitOther

NextSpecial ==
    \/ \E s \in 0 .. MaxSpecialSize : NewCall(s)
    \/ Steal
    \/ NewTask
    \/ NewReturn
    \/ Store
    \/ EvolveCall
    \/ EvolveTask
    \/ EvolveReturn

SpecSpecial == InitSpecial /\ [][NextSpecial]_vars

\* The engine, called by any caller, with a Generator, an Individual and a
\* fitness function that may panic, for a size in 0..MaxPanicSize.
InitPanic ==
    /\ InitEngine
    /\ InitPool(MaxPanicThreads, BOOLEAN)
    /\ dom \in Domains
    /\ InitMain
    /\ driver = "none"
    /\ population_size = 0
    /\ max_generations = 0
    /\ InitOther

NextPanic ==
    \/ \E s \in 0 .. MaxPanicSize : NewCall(s)
    \/ Steal
    \/ NewTask
    \/ NewTaskPanic
    \/ NewUnwind
    \/ NewReturn
    \/ Store
    \/ EvolveCall
    \/ EvolveTask
    \/ EvolveTaskPanic
    \/ EvolveUnwind
    \/ EvolveReturn

SpecPanic == InitPanic /\ [][NextPanic]_vars

\* ------------------------------------------------------------ the drivers
\* main of ga_strings and of ga_calc.  Of the Population a driver reads
\* only the number of individuals and the fitness of the first one, which
\* it compares with its threshold (== 10.0 in ga_strings, >= 1.9 in
\* ga_calc): pop_len and best stand for the Population.

\* let mut need_matches = 100
NeedMatches == 100

\* 'a' as u8 and 'z' as u8
LowerA == 97
LowerZ == 122

\* The phrases string_fitness is called with, as bytes: helloworld,
\* aaaaaaaaaa, zzzzzzzzzz, and four it refuses: hello, Helloworld,
\* hello`orld and helloworl{.
Phrases ==
    {<<104, 101, 108, 108, 111, 119, 111, 114, 108, 100>>,
     [i \in 1 .. 10 |-> LowerA],
     [i \in 1 .. 10 |-> LowerZ],
     <<104, 101, 108, 108, 111>>,
     <<72, 101, 108, 108, 111, 119, 111, 114, 108, 100>>,
     <<104, 101, 108, 108, 111, 96, 111, 114, 108, 100>>,
     <<104, 101, 108, 108, 111, 119, 111, 114, 108, 123>>}

\* Whether string_fitness panics on phrase: it is not of 10 bytes, or one
\* of them is not in a..=z.
PhraseRefused(bytes) ==
    IF Len(bytes) # 10
    THEN TRUE
    ELSE \E i \in 1 .. 10 : bytes[i] < LowerA \/ bytes[i] > LowerZ

\* What pop.individuals.first() may be in a Population of len individuals.
FirstOf(len) == IF len = 0 THEN {"none"} ELSE {"low", "high"}

\* pop.individuals.first().unwrap() panics on an empty Population.
UnwrapPanics == pop_len = 0

InitDriver ==
    /\ InitEngine
    /\ InitPool(MaxThreads, {FALSE})
    /\ dom \in Domains
    /\ InitMain
    /\ driver \in {"strings", "calc"}
    /\ population_size \in 0 .. MaxPopulation
    /\ max_generations \in 0 .. MaxGenerations
    /\ phrase \in (IF driver = "strings" THEN Phrases ELSE {<<>>})
    /\ str_pc = "idle"
    /\ data = <<>>
    /\ s_genes = <<>>
    /\ s_score = 0
    /\ IdleSVM
    /\ IdleCalc

\* ga_strings: let fitness = string_fitness(args.phrase.clone()) panics on
\* a phrase it refuses, before Population::new is called.
MainStringFitnessPanic ==
    /\ main_pc = "start"
    /\ driver = "strings"
    /\ PhraseRefused(phrase)
    /\ main_pc' = "panicked"
    /\ UNCHANGED <<evars, xvars, driver, population_size, max_generations, g, generations,
                   need_matches, pop_len, best, streak>>

\* The fitness function is made (ga_strings: of a phrase string_fitness
\* accepts); let mut pop = ga::Population::new(args.population_size, ...);
\* let mut generations = 1; let mut need_matches = 100; and the loop is entered.
MainNew ==
    /\ main_pc = "start"
    /\ driver = "strings" => ~PhraseRefused(phrase)
    /\ pop_len' = RangeLen(population_size)
    /\ best' \in FirstOf(pop_len')
    /\ generations' = 1
    /\ need_matches' = IF driver = "calc" THEN NeedMatches ELSE 0
    /\ g' = 1
    /\ streak' = 0
    /\ main_pc' = "loop"
    /\ UNCHANGED <<evars, xvars, driver, population_size, max_generations>>

\* for g in 1..args.max_generations: the range is exhausted.
LoopExit ==
    /\ main_pc = "loop"
    /\ ~(g < max_generations)
    /\ main_pc' = "after"
    /\ UNCHANGED <<evars, xvars, driver, population_size, max_generations, g, generations,
                   need_matches, pop_len, best, streak>>

\* The loop body's pop.individuals.first().unwrap() on an empty Population.
LoopUnwrapPanic ==
    /\ main_pc = "loop"
    /\ g < max_generations
    /\ UnwrapPanics
    /\ main_pc' = "panicked"
    /\ UNCHANGED <<evars, xvars, driver, population_size, max_generations, g, generations,
                   need_matches, pop_len, best, streak>>

\* need_matches after a check that counts every check as a match.
NeedAfterEveryCheck == need_matches - 1

\* need_matches after the check of ga_calc: one less when the first
\* fitness is >= 1.9, 100 again otherwise.
NeedAfterCheck == IF best = "high" THEN need_matches - 1 ELSE NeedMatches

\* Whether the loop body breaks: ga_strings on a first fitness of 10.0,
\* ga_calc when need_matches has come down to 0.
Breaks == IF driver = "strings" THEN best = "high" ELSE NeedAfterCheck = 0

\* The loop body up to its break.
LoopBreak ==
    /\ main_pc = "loop"
    /\ g < max_generations
    /\ ~UnwrapPanics
    /\ Breaks
    /\ need_matches' = IF driver = "calc" THEN NeedAfterCheck ELSE need_matches
    /\ streak' = IF best = "high" THEN streak + 1 ELSE 0
    /\ main_pc' = "after"
    /\ UNCHANGED <<evars, xvars, driver, population_size, max_generations, g, generations,
                   pop_len, best>>

\* The loop body up to the call of evolve, when it does not break.
LoopCheck ==
    /\ main_pc = "loop"
    /\ g < max_generations
    /\ ~UnwrapPanics
    /\ ~Breaks
    /\ need_matches' = IF driver = "calc" THEN NeedAfterCheck ELSE need_matches
    /\ streak' = IF best = "high" THEN streak + 1 ELSE 0
    /\ main_pc' = "evolve"
    /\ UNCHANGED <<evars, xvars, driver, population_size, max_generations, g, generations,
                   pop_len, best>>

\* pop = pop.evolve(...); generations += 1; and the next g.  A first
\* individual that evolve copies (copy_count >= 1) stays the first or is
\* overtaken by a fitter one.
MainEvolve ==
    /\ main_pc = "evolve"
    /\ IF SlicesInRange(pop_len, copy_count(pop_len))
       THEN /\ pop_len' = Len(EvolveTasks(pop_len, copy_count(pop_len)))
            /\ best' \in (IF copy_count(pop_len) >= 1 /\ best = "high"
                          THEN {"high"} ELSE FirstOf(pop_len'))
            /\ generations' = generations + 1
            /\ g' = g + 1
            /\ main_pc' = "loop"
       ELSE /\ main_pc' = "panicked"
            /\ UNCHANGED <<pop_len, best, generations, g>>
    /\ evolves' = evolves + 1
    /\ UNCHANGED <<pc, size, dom, pop, tasks, population, calls, returned, cause, pvars, xvars,
                   driver, population_size, max_generations, need_matches, streak>>

\* After the loop ga_strings prints and ends; ga_calc also takes
\* pop.individuals.first().unwrap() as the final solution.
AfterLoop ==
    /\ main_pc = "after"
    /\ ~(driver = "calc" /\ UnwrapPanics)
    /\ main_pc' = "done"
    /\ UNCHANGED <<evars, xvars, driver, population_size, max_generations, g, generations,
                   need_matches, pop_len, best, streak>>

\* ga_calc's final pop.individuals.first().unwrap() on an empty Population.
AfterLoopUnwrapPanic ==
    /\ main_pc = "after"
    /\ driver = "calc"
    /\ UnwrapPanics
    /\ main_pc' = "panicked"
    /\ UNCHANGED <<evars, xvars, driver, population_size, max_generations, g, generations,
                   need_matches, pop_len, best, streak>>

NextMain ==
    \/ MainNew
    \/ LoopExit
    \/ LoopUnwrapPanic
    \/ LoopBreak
    \/ LoopCheck
    \/ MainEvolve
    \/ AfterLoop
    \/ AfterLoopUnwrapPanic

NextDriver ==
    \/ MainStringFitnessPanic
    \/ NextMain

SpecDriver == InitDriver /\ [][NextDriver]_vars

\* The --max-generations ga_calc is run with: those of the drivers, and as
\* many that let need_matches come down from 100 to 0.
CalcGenerations ==
    (0 .. MaxGenerations) \cup ((NeedMatches + 1) .. (NeedMatches + MaxGenerations))

\* main of ga_calc, run long enough for its streak of need_matches checks.
InitCalcMain ==
    /\ InitEngine
    /\ InitPool(MaxThreads, {FALSE})
    /\ dom \in Domains
    /\ InitMain
    /\ driver = "calc"
    /\ population_size \in 0 .. MaxPopulation
    /\ max_generations \in CalcGenerations
    /\ InitOther

SpecCalcMain == InitCalcMain /\ [][NextMain]_vars

\* ================================================================ the SVM
\* The stack machine of ga_calc (src/src/bin/ga_calc.rs).  A value is an
\* i32, an integer in I32_MIN..I32_MAX.
I32_MAX == 2147483647
I32_MIN == -I32_MAX - 1

\* Wrapping(a) + Wrapping(b)
wrapping_add(a, b) ==
    IF b > 0 /\ a > I32_MAX - b THEN (a - I32_MAX - 1) + (b - I32_MAX - 1)
    ELSE IF b < 0 /\ a < I32_MIN - b THEN (a + I32_MAX + 1) + (b + I32_MAX + 1)
    ELSE a + b

\* Wrapping(a) - Wrapping(b)
wrapping_sub(a, b) ==
    IF b < 0 /\ a > I32_MAX + b THEN (a - I32_MAX - 1) - (b + I32_MAX + 1)
    ELSE IF b > 0 /\ a < I32_MIN + b THEN (a + I32_MAX + 1) - (b - I32_MAX - 1)
    ELSE a - b

\* The four bytes of the two's complement of a, the lowest first.
ToBytes(a) ==
    <<a % 256, (a \div 256) % 256, (a \div 65536) % 256, (a \div 16777216) % 256>>

\* The i32 of four bytes, the lowest first.
FromBytes(r) ==
    r[1] + 256 * r[2] + 65536 * r[3] + 16777216 * (IF r[4] >= 128 THEN r[4] - 256 ELSE r[4])

\* Wrapping(a) * Wrapping(b): the low 32 bits of the product, byte by byte.
wrapping_mul(a, b) ==
    LET x == ToBytes(a)
        y == ToBytes(b)
        t1 == x[1] * y[1]
        t2 == x[1] * y[2] + x[2] * y[1] + t1 \div 256
        t3 == x[1] * y[3] + x[2] * y[2] + x[3] * y[1] + t2 \div 256
        t4 == x[1] * y[4] + x[2] * y[3] + x[3] * y[2] + x[4] * y[1] + t3 \div 256
    IN  FromBytes(<<t1 % 256, t2 % 256, t3 % 256, t4 % 256>>)

\* a / p rounded towards zero, p > 0.
TruncDivPos(a, p) ==
    IF a >= 0 \/ a % p = 0 THEN a \div p ELSE (a \div p) + 1

\* Wrapping(a) / Wrapping(b), b # 0: the quotient rounded towards zero,
\* I32_MIN / -1 wrapping to I32_MIN.
wrapping_div(a, b) ==
    CASE b = I32_MIN -> (IF a = I32_MIN THEN 1 ELSE 0)
      [] b = -1 /\ a = I32_MIN -> I32_MIN
      [] b > 0 -> TruncDivPos(a, b)
      [] OTHER -> -TruncDivPos(a, -b)

\* A bitwise operation on two numbers of n bits; f gives the bit of two bits.
RECURSIVE BitWise(_, _, _, _)
BitWise(f, x, y, n) ==
    IF n = 0 THEN 0
    ELSE 2 * BitWise(f, x \div 2, y \div 2, n - 1) + f[x % 2][y % 2]

\* A bitwise operation on two i32 values.
BitOp(f, a, b) ==
    FromBytes([i \in 1 .. 4 |-> BitWise(f, ToBytes(a)[i], ToBytes(b)[i], 8)])

\* a | b, a & b, a ^ b
OrBits == [p \in {0, 1} |-> [q \in {0, 1} |-> IF p + q > 0 THEN 1 ELSE 0]]
AndBits == [p \in {0, 1} |-> [q \in {0, 1} |-> p * q]]
XorBits == [p \in {0, 1} |-> [q \in {0, 1} |-> (p + q) % 2]]

\* OpCode { code, literal }
OpCode(code, literal) == [code |-> code, literal |-> literal]

\* SVM::peek_mem(literal as usize): a negative literal is an address past
\* every memory.
peek_mem(memory, address) ==
    IF address >= 0 /\ address < Len(memory) THEN memory[address + 1] ELSE 0

\* SVM::poke_mem(literal as usize, value)
poke_mem(memory, address, value) ==
    IF address >= 0 /\ address < Len(memory)
    THEN [memory EXCEPT ![address + 1] = value]
    ELSE memory

\* SVM::pop_stack: the value returned, and the stack left.
pop_stack(stack) == IF stack = <<>> THEN 0 ELSE stack[Len(stack)]
Popped(stack) == IF stack = <<>> THEN <<>> ELSE SubSeq(stack, 1, Len(stack) - 1)

\* push_stack pushing on a full stack as well.
push_stack_unchecked(stack, capacity, val) == Append(stack, val)

\* SVM::push_stack
push_stack(stack, capacity, val) ==
    IF Len(stack) < capacity THEN Append(stack, val) ELSE stack

\* The capacity of the stack after SVM::new: Vec::reserve(stack_size) on an
\* empty Vec<i32> allocates room for stack_size values, and for no fewer
\* than 4 (none for stack_size 0).
ReservedCapacity(stack_size) ==
    IF stack_size = 0 THEN 0 ELSE IF stack_size < 4 THEN 4 ELSE stack_size

\* bound_ip
bound_ip(old_ip, len) == IF old_ip < 0 \/ old_ip >= len THEN 0 ELSE old_ip

\* ip += literal, ip being at least 1: the sum, or on overflow whichever the
\* build makes of it, a panic (overflow checks on) or the wrapped sum.
JumpedBy(old_ip, literal) ==
    IF literal > 0 /\ old_ip > I32_MAX - literal
    THEN {[panic |-> TRUE, ip |-> 0],
          [panic |-> FALSE, ip |-> wrapping_add(old_ip, literal)]}
    ELSE {[panic |-> FALSE, ip |-> old_ip + literal]}

\* TwoPops with the second value popped taken for the first.
TwoPopsSwapped(stack) ==
    [a |-> pop_stack(Popped(stack)),
     b |-> pop_stack(stack),
     rest |-> Popped(Popped(stack))]

\* The stacks and values of an instruction that pops twice.
TwoPops(stack) ==
    [a |-> pop_stack(stack),
     b |-> pop_stack(Popped(stack)),
     rest |-> Popped(Popped(stack))]

\* The stack and the memory after cur_op, a match arm that does not touch ip or done.
Arm(cur_op, self) ==
    LET code == cur_op.code
        two == TwoPops(self.stack)
        cap == self.capacity
        val == pop_stack(self.stack)
        Binary(c) == [self EXCEPT !.stack = push_stack(two.rest, cap, c)]
    IN  CASE code = "BitOr" -> Binary(BitOp(OrBits, two.a, two.b))
          [] code = "BitAnd" -> Binary(BitOp(AndBits, two.a, two.b))
          [] code = "BitXor" -> Binary(BitOp(XorBits, two.a, two.b))
          [] code = "Add" -> Binary(wrapping_add(two.a, two.b))
          [] code = "Sub" -> Binary(wrapping_sub(two.a, two.b))
          [] code = "Mult" -> Binary(wrapping_mul(two.a, two.b))
          [] code = "Div" ->
                Binary(IF two.b # 0 THEN wrapping_div(two.a, two.b) ELSE I32_MAX)
          [] code = "Push" ->
                [self EXCEPT !.stack = push_stack(self.stack, cap, cur_op.literal)]
          [] code = "PushDuplicate" ->
                [self EXCEPT !.stack =
                    push_stack(push_stack(Popped(self.stack), cap, val), cap, val)]
          [] code = "PushMem" ->
                [self EXCEPT !.stack =
                    push_stack(self.stack, cap, peek_mem(self.memory, cur_op.literal))]
          [] code = "PopMem" ->
                [self EXCEPT !.stack = Popped(self.stack),
                             !.memory = poke_mem(self.memory, cur_op.literal, val)]
          [] code \in {"Pop", "JumpEq", "JumpGt", "JumpLt"} ->
                [self EXCEPT !.stack = Popped(self.stack)]
          [] OTHER -> self

\* Whether cur_op adds its literal to ip.
Jumps(cur_op, self) ==
    CASE cur_op.code = "JumpRel" -> TRUE
      [] cur_op.code = "JumpEq" -> pop_stack(self.stack) = 0
      [] cur_op.code = "JumpGt" -> pop_stack(self.stack) > 0
      [] cur_op.code = "JumpLt" -> pop_stack(self.stack) < 0
      [] OTHER -> FALSE

\* stats.instructions_issued += 1
Issued(self) ==
    [self EXCEPT !.stats.instructions_issued = self.stats.instructions_issued + 1]

\* The loop going on with remaining_steps at 0 as well.
ContinuesInclusive == ~done /\ remaining_steps >= 0

\* The loop going on after an Abort.
ContinuesPastAbort == remaining_steps > 0

\* while !done && remaining_steps > 0
Continues == ~done /\ remaining_steps > 0

\* execute is entered: its locals are set up.
ExecuteCall ==
    /\ vm_pc = "idle"
    /\ vm_pc' = "execute"
    /\ ip' = 0
    /\ done' = FALSE
    /\ remaining_steps' = max_steps
    /\ exit_type' = "Timeout"
    /\ UNCHANGED <<program, max_steps, vm, evars, dvars, cvars, gvars>>

\* One turn of the while loop.  Indexing an empty program panics, and so may
\* a jump whose target overflows.
ExecuteStep ==
    /\ vm_pc = "execute"
    /\ Continues
    /\ remaining_steps' = remaining_steps - 1
    /\ IF Len(program) = 0
       THEN /\ vm_pc' = "panicked"
            /\ ip' = bound_ip(ip, Len(program))
            /\ UNCHANGED <<vm, done, exit_type>>
       ELSE LET at == bound_ip(ip, Len(program))
                cur_op == program[at + 1]
            IN  /\ vm' = Arm(cur_op, Issued(vm))
                /\ done' = (cur_op.code = "Abort")
                /\ exit_type' = (IF cur_op.code = "Abort" THEN "Abort" ELSE exit_type)
                /\ IF Jumps(cur_op, vm)
                   THEN \E to \in JumpedBy(at + 1, cur_op.literal) :
                           /\ ip' = to.ip
                           /\ vm_pc' = (IF to.panic THEN "panicked" ELSE vm_pc)
                   ELSE ip' = at + 1 /\ UNCHANGED vm_pc
    /\ UNCHANGED <<program, max_steps, evars, dvars, cvars, gvars>>

\* The loop is left and exit_type returned.
ExecuteReturn ==
    /\ vm_pc = "execute"
    /\ ~Continues
    /\ vm_pc' = "returned"
    /\ UNCHANGED <<program, max_steps, vm, ip, done, remaining_steps, exit_type,
                   evars, dvars, cvars, gvars>>

NextSVM ==
    \/ ExecuteCall
    \/ ExecuteStep
    \/ ExecuteReturn

\* enum Instruction
Instructions ==
    {"Nop", "BitOr", "BitAnd", "BitXor", "Add", "Sub", "Mult", "Div", "Push", "Pop",
     "PushDuplicate", "PushMem", "PopMem", "JumpRel", "JumpEq", "JumpGt", "JumpLt",
     "Abort"}

\* The instructions that read the literal of their OpCode.
WithLiteral == {"Push", "PushMem", "PopMem", "JumpRel", "JumpEq", "JumpGt", "JumpLt"}

\* The literals of the programs run: a value, an address or a jump, within
\* and outside the memory and the program.
Literals == {-1, 0, 1, 2, I32_MAX}

\* The opcodes of the programs run.
OpCodes ==
    {OpCode(code, 0) : code \in Instructions \ WithLiteral}
    \cup {OpCode(code, literal) : code \in WithLiteral, literal \in Literals}

\* The program of the spec's example: [Push 2, Push 3, Add, Abort].
ExampleProgram ==
    <<OpCode("Push", 2), OpCode("Push", 3), OpCode("Add", 0), OpCode("Abort", 0)>>

\* The programs run: the empty one, every program of one or two of OpCodes,
\* and the example.
Programs ==
    {<<>>, ExampleProgram}
    \cup {<<x>> : x \in OpCodes}
    \cup {<<x, y>> : x \in OpCodes, y \in OpCodes}

\* SVM::new(words, stack_size)
NewSVM(words, stack_size) ==
    [memory |-> [i \in 1 .. words |-> 0],
     stack |-> <<>>,
     capacity |-> ReservedCapacity(stack_size),
     stats |-> [instructions_issued |-> 0, invalid_instructions |-> 0]]

\* An SVM just made, about to execute program with a budget of max_steps.
InitExecute(programs) ==
    /\ vm_pc = "idle"
    /\ program \in programs
    /\ max_steps \in -1 .. MaxSteps
    /\ \E words \in {0, MaxWords}, stack_size \in {0, MaxStackSize} :
          vm = NewSVM(words, stack_size)
    /\ ip = 0
    /\ done = FALSE
    /\ remaining_steps = 0
    /\ exit_type = "Timeout"

\* The engine and the drivers at rest.
InitRest ==
    /\ InitEngine
    /\ InitPool(1, {FALSE})
    /\ dom \in Domains
    /\ InitMain
    /\ driver = "none"
    /\ population_size = 0
    /\ max_generations = 0

InitSVM == InitRest /\ IdleCalc /\ IdleStrings /\ InitExecute(Programs)

SpecSVM == InitSVM /\ [][NextSVM]_vars

\* execute runs on: nothing suspends the thread that called it.
SpecSVMFair == SpecSVM /\ WF_vars(NextSVM)

\* The operands of the arithmetic programs.
Operands == {I32_MIN, -7, -1, 0, 1, 2, 3, 65536, I32_MAX}

\* The programs [Push x, Push y, op], op an arithmetic instruction.
ArithPrograms ==
    {<<OpCode("Push", x), OpCode("Push", y), OpCode(code, 0)>> :
        x \in Operands, y \in Operands, code \in {"Add", "Sub", "Mult", "Div"}}

InitArith == InitRest /\ IdleCalc /\ IdleStrings /\ InitExecute(ArithPrograms)

SpecArith == InitArith /\ [][NextSVM]_vars

\* ------------------------------------------- the individuals of ga_calc
\* OpCode::rand: any instruction, with a literal of gen_range(0..5).
OpCode_rand ==
    {OpCode(code, literal) : code \in Instructions, literal \in gen_range(0, 5)}

\* The programs of one or two opcodes that execute is given when the
\* opcodes are made by OpCode::rand, the literal of an instruction that
\* reads none taken as 0; and those with a literal of -1 as well, a jump
\* backwards and an address before the memory.
RandPrograms ==
    LET made == {op \in OpCode_rand : op.code \in WithLiteral \/ op.literal = 0}
                   \cup {OpCode(code, -1) : code \in WithLiteral}
    IN  {<<x>> : x \in made} \cup {<<x, y>> : x \in made, y \in made}

InitSVMRand == InitRest /\ IdleCalc /\ IdleStrings /\ InitExecute(RandPrograms)

SpecSVMRand == InitSVMRand /\ [][NextSVM]_vars

\* The opcodes OpCode::rand is taken to return.
DrawnOpCodes ==
    {op \in {OpCode("Abort", 0), OpCode("PushMem", 1)} : op \in OpCode_rand}

\* The indices gen_range(0..l) is taken to return: the first and the last.
DrawnIndices(l) == {i \in {0, l - 1} : i \in gen_range(0, l)}

\* get_val, and the values it is taken to return.
get_val == gen_range(1, 10000)
DrawnVals == {v \in {1, 9999} : v \in get_val}

\* The ops CalcIndividual::new pushes, count of them: any opcodes for a count
\* of MaxMixed at most, count times one opcode for a greater one.
NewOps(count) ==
    IF count <= MaxMixed
    THEN [1 .. count -> DrawnOpCodes]
    ELSE {[i \in 1 .. count |-> op] : op \in DrawnOpCodes}

\* CalcIndividual::new
CalcIndividual_new ==
    {[ops |-> ops] : ops \in UNION {NewOps(count) : count \in gen_range(5, 25)}}

\* The action of mutate with the deletion left as drawn for every length.
mutate_action_as_drawn(action, l) == action

\* mutate: if l <= 2 && action == 1 { action = 2 }
mutate_action(action, l) == IF l <= 2 /\ action = 1 THEN 2 ELSE action

\* self.ops but for the opcode at split_point.
Without(ops, split_point) ==
    [i \in 1 .. (Len(ops) - 1) |-> IF i <= split_point THEN ops[i] ELSE ops[i + 1]]

\* mutate: match action, the ops of each arm.  gen_range of an empty range
\* panics: no ops are made of an empty self.ops by the first two arms.
mutate_match(self, action) ==
    LET l == Len(self.ops)
    IN  CASE action = 0 ->
                {[self.ops EXCEPT ![i + 1] = op] :
                    i \in DrawnIndices(l), op \in DrawnOpCodes}
          [] action = 1 ->
                {Without(self.ops, split_point) : split_point \in DrawnIndices(l)}
          [] OTHER -> {Append(self.ops, op) : op \in DrawnOpCodes}

\* CalcIndividual::mutate(&self)
CalcIndividual_mutate(self) ==
    {[ops |-> ops] :
        ops \in UNION {mutate_match(self, mutate_action(action, Len(self.ops))) :
                          action \in gen_range(0, 3)}}

\* impl ga::Generator<CalcIndividual> for Generator
Generator_generate == CalcIndividual_new
Generator_evolve(a, b) == CalcIndividual_mutate(a)

\* Generator::generate makes the first individual.
Generate ==
    /\ calc_pc = "none"
    /\ \E ind \in Generator_generate : subject' = ind
    /\ calc_pc' = "made"
    /\ UNCHANGED <<parent, mutations, svars, evars, dvars, gvars>>

\* The fitness function is called on the individual just made: it makes an
\* SVM with a and b in its memory, for execute to run subject.ops on.
FitnessCall ==
    /\ calc_pc = "made"
    /\ calc_pc' = "scoring"
    /\ \E a \in DrawnVals, b \in DrawnVals :
          vm' = [NewSVM(100, 100) EXCEPT
                    !.memory = poke_mem(poke_mem(@, 0, a), 1, b)]
    /\ program' = subject.ops
    /\ max_steps' = 25
    /\ UNCHANGED <<vm_pc, ip, done, remaining_steps, exit_type,
                   subject, parent, mutations, evars, dvars, gvars>>

\* vm.execute(&subject.ops, 25) runs.
FitnessExecute ==
    /\ calc_pc = "scoring"
    /\ NextSVM

\* execute has returned: the closure returns its score and drops vm.
FitnessReturn ==
    /\ calc_pc = "scoring"
    /\ vm_pc = "returned"
    /\ calc_pc' = "scored"
    /\ vm_pc' = "idle"
    /\ program' = <<>>
    /\ max_steps' = 0
    /\ vm' = [memory |-> <<>>, stack |-> <<>>, capacity |-> 0,
              stats |-> [instructions_issued |-> 0, invalid_instructions |-> 0]]
    /\ ip' = 0
    /\ done' = FALSE
    /\ remaining_steps' = 0
    /\ exit_type' = "Timeout"
    /\ UNCHANGED <<subject, parent, mutations, evars, dvars, gvars>>

\* The engine calls mutate on a graded individual.
Mutate ==
    /\ calc_pc = "scored"
    /\ mutations < MaxMutations
    /\ \E child \in CalcIndividual_mutate(subject) : subject' = child
    /\ parent' = subject
    /\ mutations' = mutations + 1
    /\ calc_pc' = "made"
    /\ UNCHANGED <<svars, evars, dvars, gvars>>

\* The engine calls Generator::evolve on two graded individuals.
Evolve ==
    /\ calc_pc = "scored"
    /\ mutations < MaxMutations
    /\ \E b \in {subject, parent} :
          \E child \in Generator_evolve(subject, b) : subject' = child
    /\ parent' = subject
    /\ mutations' = mutations + 1
    /\ calc_pc' = "made"
    /\ UNCHANGED <<svars, evars, dvars, gvars>>

NextCalc ==
    \/ Generate
    \/ FitnessCall
    \/ FitnessExecute
    \/ FitnessReturn
    \/ Mutate
    \/ Evolve

InitCalc == InitRest /\ IdleSVM /\ IdleCalc /\ IdleStrings

SpecCalc == InitCalc /\ [][NextCalc]_vars

\* --------------------------------------- the fitness function of ga_strings
\* The letters of the genes the closure is called with: a, b, m and z.
DrawnLetters == {l \in {97, 98, 109, 122} : l - LowerA \in gen_range(0, 26)}

\* The genes the closure is called with: those of the phrase, with up to
\* two of them replaced by one of DrawnLetters.
DrawnGenes(bytes) ==
    LET Replaced(genes) ==
            {genes} \cup {[genes EXCEPT ![i] = x] : i \in 1 .. 10, x \in DrawnLetters}
    IN  UNION {Replaced(genes) : genes \in Replaced(bytes)}

\* The delta taken as it is, negative or not.
delta_signed(delta) == delta

\* delta.abs()
delta_abs(delta) == Abs(delta)

\* The closure's score after n turns of its loop.  Every term and every sum
\* is an integer of a magnitude of 10 * 255 at most: the f32
\* operations are exact.
RECURSIVE score_after(_, _, _)
score_after(bytes, genes, n) ==
    IF n = 0
    THEN 0
    ELSE LET i == n - 1
             delta == bytes[i + 1] - genes[i + 1]
         IN  score_after(bytes, genes, n - 1) + (1 - delta_abs(delta))

\* string_fitness(phrase): the closure is made, or the phrase refused.
StringFitness ==
    /\ str_pc = "start"
    /\ IF PhraseRefused(phrase)
       THEN str_pc' = "panicked" /\ data' = <<>>
       ELSE str_pc' = "made" /\ data' = phrase
    /\ UNCHANGED <<phrase, s_genes, s_score, evars, dvars, svars, cvars>>

\* The closure is called on a StringIndividual.
Closure ==
    /\ str_pc = "made"
    /\ \E genes \in DrawnGenes(data) :
          /\ s_genes' = genes
          /\ s_score' = score_after(data, genes, 10)
    /\ str_pc' = "scored"
    /\ UNCHANGED <<phrase, data, evars, dvars, svars, cvars>>

NextStrings ==
    \/ StringFitness
    \/ Closure

InitStrings ==
    /\ InitRest
    /\ IdleSVM
    /\ IdleCalc
    /\ str_pc = "start"
    /\ phrase \in Phrases
    /\ data = <<>>
    /\ s_genes = <<>>
    /\ s_score = 0

SpecStrings == InitStrings /\ [][NextStrings]_vars

\* ================================================================ claims
\* s is in descending order of fitness: x.fitness >= y.fitness for every
\* adjacent pair (x, y).
SortedDescending(s) == \A i \in 1 .. (Len(s) - 1) : s[i].fitness >= s[i + 1].fitness

\* The number of calls of op in the calls cs of one closure.
CallsOf(op, cs) == Cardinality({i \in 1 .. Len(cs) : cs[i].op = op})

\* The number of calls of op the closures of slots 1..k have made.
RECURSIVE TotalCalls(_, _)
TotalCalls(op, k) == IF k = 0 THEN 0 ELSE CallsOf(op, calls[k]) + TotalCalls(op, k - 1)

\* The length Population::new(size) returns, as the spec states it.
NewLen == IF size >= 1 THEN size - 1 ELSE 0

\* C1: evolve of a non-empty population collects and returns exactly as many
\* individuals as the population has, so that after new and any number of
\* evolve calls the population has the length new produced.
SizeConservation ==
    /\ pc \in {"ready", "evolve", "evolve_returned"} => Len(pop) = NewLen
    /\ pc = "evolve" /\ Len(pop) >= 1 =>
          Len(population) = Len(pop) /\ Len(tasks) = Len(pop)
    /\ pc = "evolve_returned" /\ Len(pop) >= 1 => Len(returned) = Len(pop)

\* C1 witness: a second evolve has returned the ten individuals of a
\* population of ten, one of them an elite.
SizeConservationWitness ==
    /\ pc = "evolve_returned"
    /\ evolves = 2
    /\ Len(pop) = 10
    /\ Len(returned) = 10

\* C2: what new and evolve return, and so the caller's population, is in
\* descending order of fitness.
SortInvariant ==
    /\ pc \in {"new_returned", "evolve_returned"} => SortedDescending(returned)
    /\ SortedDescending(pop)

\* C2 witness: evolve has returned ten individuals of different fitness.
SortInvariantWitness ==
    /\ pc = "evolve_returned"
    /\ Len(returned) = 10
    /\ returned[1].fitness > returned[10].fitness

\* C3: each of the first floor(0.1*len) entries of the population is in what
\* evolve returns, with its individual and its stored fitness, and its
\* closure has called neither the fitness function nor anything else.
ElitismExactness ==
    pc = "evolve_returned" =>
       \A i \in 1 .. (Len(pop) \div 10) :
          /\ \E j \in 1 .. Len(returned) : returned[j] = pop[i]
          /\ \E k \in 1 .. Len(tasks) :
                tasks[k] = Task("copy", i - 1) /\ calls[k] = <<>>
          /\ \A k \in 1 .. Len(tasks) :
                tasks[k].src = i - 1 => tasks[k].kind = "copy"

\* C3 witness: evolve has returned a generation that differs from a
\* population of ten, whose first entry is the one elite.
ElitismExactnessWitness ==
    /\ pc = "evolve_returned"
    /\ Len(pop) = 10
    /\ copy_count(Len(pop)) = 1
    /\ returned # pop
    /\ \E j \in 1 .. Len(returned) : returned[j] = pop[1]

\* C4: every entry a mutation-band closure has written is the mutation of
\* its entry, scored by a call of the fitness function on that mutated
\* individual: with a deterministic fitness function f, fitness = f(individual).
MutationRescored ==
    pc = "evolve" =>
       \A k \in 1 .. Len(tasks) :
          tasks[k].kind = "mutate" /\ population[k] # Vacant =>
             /\ population[k].individual \in mutate(pop[tasks[k].src + 1].individual)
             /\ calls[k] = <<Call("mutate", pop[tasks[k].src + 1].individual, NoInd),
                             Call("fitness", population[k].individual, NoInd)>>
             /\ ~dom.random => population[k].fitness = dom.tab[population[k].individual + 1]

\* C5: whatever the order in which the workers run the closures, a closure
\* that has run has called the fitness function once if its slot is not an
\* elite's and never if it is, one that has not run has not called it, and
\* once evolve has returned the calls are len - floor(0.1*len).
FitnessOncePerNonElite ==
    /\ pc = "evolve" =>
          \A k \in 1 .. Len(tasks) :
             CallsOf("fitness", calls[k]) =
                (IF tasks[k].kind = "copy" \/ population[k] = Vacant THEN 0 ELSE 1)
    /\ pc = "evolve_returned" =>
          /\ \A k \in 1 .. Len(tasks) :
                CallsOf("fitness", calls[k]) = (IF tasks[k].kind = "copy" THEN 0 ELSE 1)
          /\ TotalCalls("fitness", Len(calls)) = Len(pop) - (Len(pop) \div 10)

\* C5 witness: evolve of a population of ten has returned after nine calls
\* of the fitness function.
FitnessOncePerNonEliteWitness ==
    /\ pc = "evolve_returned"
    /\ Len(pop) = 10
    /\ TotalCalls("fitness", Len(calls)) = 9

\* C6: new(size) returns size - 1 individuals (none for size 0), and has
\* called generate and the fitness function once for each of them.
NewSize ==
    /\ pc = "new" =>
          \A k \in 1 .. Len(population) :
             /\ CallsOf("generate", calls[k]) = (IF population[k] = Vacant THEN 0 ELSE 1)
             /\ CallsOf("fitness", calls[k]) = (IF population[k] = Vacant THEN 0 ELSE 1)
    /\ pc = "new_returned" =>
          /\ Len(returned) = NewLen
          /\ TotalCalls("generate", Len(calls)) = Len(returned)
          /\ TotalCalls("fitness", Len(calls)) = Len(returned)
          /\ \A k \in 1 .. Len(calls) :
                CallsOf("generate", calls[k]) = 1 /\ CallsOf("fitness", calls[k]) = 1

\* C6 witness: new(11) has returned ten individuals.
NewSizeWitness ==
    /\ pc = "new_returned"
    /\ size = 11
    /\ Len(returned) = 10
    /\ TotalCalls("fitness", Len(calls)) = 10

\* C7: evolve of an empty population does not panic (it completes and
\* returns an empty population).
EvolveOfEmptyCompletes == ~(pc = "panicked" /\ evolves > 0 /\ pop = <<>>)

\* C8: the drivers never take first().unwrap() of an empty population:
\* once it has its Population main does not panic, whatever
\* --population-size and --max-generations.
DriversGuardFirst == ~(main_pc = "panicked" /\ generations >= 1)

\* C9: while evolve runs and when it returns, the population it was called
\* on is what it was; nothing is returned before every closure has run, and what
\* is returned then is the sorted collection of what the closures wrote.
InputUnchanged ==
    /\ [](pc = "evolve" => returned = <<>>)
    /\ [][pc = "evolve" => pop' = pop]_vars
    /\ [][pc = "evolve" /\ pc' = "evolve_returned" =>
             AllFilled /\ returned' = par_sort_by(population)]_vars

\* C9 witness: evolve has returned a generation that differs from the
\* population of ten it was called on, which the caller still holds.
InputUnchangedWitness ==
    /\ pc = "evolve_returned"
    /\ Len(pop) = 10
    /\ SortedDescending(pop)
    /\ returned # pop

\* C10 helper: a closure of the call that runs has panicked.
SomePanicked == \E k \in 1 .. Len(population) : HasPanicked(k)

\* C10: once a closure of new or evolve has panicked the call returns no
\* population: the pool goes on with the jobs that are left, the call then
\* unwinds, with the panic of a closure for its cause; the caller is
\* handed nothing, the partly filled Vec is dropped, and the population
\* evolve was called on stays what it was.  No call ends with such a cause
\* otherwise.
FailFast ==
    /\ [][SomePanicked =>
            /\ pc' \in {pc, "panicked"}
            /\ returned' = <<>>
            /\ pop' = pop
            /\ Len(population') \in {0, Len(population)}]_vars
    /\ [](cause \in {"generate", "fitness", "mutate", "evolve"} =>
            pc = "panicked" /\ returned = <<>> /\ population = <<>>)
    /\ [](SomePanicked => pc \in {"new", "evolve"} /\ returned = <<>>)

\* C10 witness: in an evolve of a population of four, mutate() has
\* panicked in one closure, two closures have run to their end, the
\* closure of the slot that came next in the leaf has never run, and the
\* pool is done.
FailFastWitness ==
    /\ pc = "evolve"
    /\ evolves = 1
    /\ Len(pop) = 4
    /\ JoinedWithPanic
    /\ FirstPanic = "mutate"
    /\ Cardinality({k \in 1 .. Len(population) : population[k] # Vacant}) = 2
    /\ \E k \in 1 .. Len(population) : ~HasRun(k)

\* The slots of the collected Vec whose closure is of the stream kind and
\* works on index i of self.individuals.
SlotsOf(kind, i) == {k \in 1 .. Len(tasks) : tasks[k] = Task(kind, i)}

\* The slots of the collected Vec whose closure is of the stream kind.
Band(kind) == {k \in 1 .. Len(tasks) : tasks[k].kind = kind}

\* C11: in evolve of a population of n with c = floor(0.1*n), every index i
\* in c..n-1 feeds one closure, of the mutation band when i - c is even and
\* of the crossover band when it is odd; no index below c feeds either
\* band; the two bands differ in size by at most one; and the closure that
\* has run in a slot has made the call of its band.
BandPartition ==
    pc \in {"evolve", "evolve_returned"} =>
       LET n == Len(pop)
           c == n \div 10
       IN  /\ \A i \in c .. (n - 1) :
                /\ Cardinality(SlotsOf("mutate", i)) = (IF (i - c) % 2 = 0 THEN 1 ELSE 0)
                /\ Cardinality(SlotsOf("evolve", i)) = (IF (i - c) % 2 = 1 THEN 1 ELSE 0)
           /\ \A i \in 0 .. (c - 1) :
                SlotsOf("mutate", i) = {} /\ SlotsOf("evolve", i) = {}
           /\ Cardinality(Band("mutate")) - Cardinality(Band("evolve")) \in {-1, 0, 1}
           /\ \A k \in 1 .. Len(tasks) :
                calls[k] # <<>> =>
                   /\ tasks[k].kind \in {"mutate", "evolve"}
                   /\ calls[k][1].op = tasks[k].kind
                   /\ calls[k][1].a = pop[tasks[k].src + 1].individual

\* C11 witness: evolve of a population of ten has returned, five closures
\* having mutated and four having crossed.
BandPartitionWitness ==
    /\ pc = "evolve_returned"
    /\ Len(pop) = 10
    /\ Cardinality(Band("mutate")) = 5
    /\ Cardinality(Band("evolve")) = 4
    /\ Cardinality({k \in 1 .. Len(calls) : calls[k] # <<>> /\ calls[k][1].op = "evolve"}) = 4

\* The individuals of self.individuals at the indices 0..len-1.
IndividualsOf(s) == {s[j + 1].individual : j \in 0 .. (Len(s) - 1)}

\* C12: every entry a crossover-band closure has written is
\* generator.evolve(entry.individual, other), other being the individual at
\* an index in 0..len-1 of the population evolve was called on, and is
\* scored by a call of the fitness function on that offspring: with a
\* deterministic fitness function f, fitness = f(offspring).
CrossoverRescored ==
    pc \in {"evolve", "evolve_returned"} =>
       \A k \in 1 .. Len(tasks) :
          tasks[k].kind = "evolve" /\ calls[k] # <<>> =>
             LET entry == pop[tasks[k].src + 1]
                 other == calls[k][1].b
                 ind == evolve(entry.individual, other)
             IN  /\ other \in IndividualsOf(pop)
                 /\ calls[k] = <<Call("evolve", entry.individual, other),
                                 Call("fitness", ind, NoInd)>>
                 /\ pc = "evolve" => population[k].individual = ind
                 /\ pc = "evolve" /\ ~dom.random =>
                       population[k].fitness = dom.tab[ind + 1]

\* C12 witness: in a population of ten whose elite alone has individual 1,
\* a crossover closure has crossed an entry with the elite's individual and
\* stored the offspring with its score.
CrossoverRescoredWitness ==
    /\ pc = "evolve"
    /\ Len(pop) = 10
    /\ pop[1].individual = 1
    /\ \A j \in 2 .. 10 : pop[j].individual = 0
    /\ \E k \in 1 .. Len(tasks) :
          /\ tasks[k].kind = "evolve"
          /\ calls[k] = <<Call("evolve", 0, 1), Call("fitness", 0, NoInd)>>
          /\ population[k] = GradedIndividual(0, 0)

\* x > y as f32 values: false when either is a NaN.
FloatGt(x, y) == ~is_nan(x) /\ ~is_nan(y) /\ x > y

\* The place of a fitness in the one order of all f32 values: -NaN below
\* -infinity, below the ordinary values, below +infinity, below +NaN.
Rank(x) ==
    CASE x = NEG_NAN -> 0
      [] x = NEG_INFINITY -> 1
      [] x = INFINITY -> 3
      [] x = NAN -> 4
      [] OTHER -> 2

\* s is in descending order of the one total order of the f32 values, its
\* NaN entries first when their sign bit is clear and last when it is set.
RankedDescending(s) ==
    \A i, j \in 1 .. Len(s) :
       /\ FloatGt(s[i].fitness, s[j].fitness) => i < j
       /\ Rank(s[i].fitness) > Rank(s[j].fitness) => i < j

\* C13: with a fitness function that returns NaN and infinite values, new
\* and evolve return every entry they collected, and what they return is
\* in descending order under one total order of all the values: an entry
\* of higher fitness is before every entry of lower fitness, and the NaN
\* entries are at a place their sign decides.
SpecialRanking ==
    /\ pc \in {"new_returned", "evolve_returned"} =>
          /\ RankedDescending(returned)
          /\ Len(returned) = Len(calls)
    /\ RankedDescending(pop)

\* C13 witness: evolve has returned a population with a NaN at its head,
\* an infinite and an ordinary fitness after it, and a NaN at its end.
SpecialRankingWitness ==
    /\ pc = "evolve_returned"
    /\ Len(returned) = 4
    /\ returned[1].fitness = NAN
    /\ returned[2].fitness = INFINITY
    /\ returned[3].fitness \in {0, 1}
    /\ returned[4].fitness = NEG_NAN

\* x >= y as f32 values: false when either is a NaN.
FloatGe(x, y) == ~is_nan(x) /\ ~is_nan(y) /\ x >= y

\* C14 as stated: for a population of ten or more, the fitness at the head
\* of what evolve returns is >= the fitness at the head of the population
\* it was called on, for any fitness function.
BestNeverRegressesFloat ==
    pc = "evolve_returned" /\ Len(pop) >= 10 =>
       FloatGe(returned[1].fitness, pop[1].fitness)

\* C14, amended: for a population of ten or more, the fitness at the head
\* of what evolve returns is not below the fitness at the head of the
\* population it was called on in the order of f32::total_cmp, and is >=
\* it when neither is a NaN; with a randomised fitness function as well.
BestNeverRegresses ==
    pc = "evolve_returned" /\ Len(pop) >= 10 =>
       /\ total_cmp(returned[1].fitness, pop[1].fitness) >= 0
       /\ ~is_nan(returned[1].fitness) /\ ~is_nan(pop[1].fitness) =>
             returned[1].fitness >= pop[1].fitness

\* C14 witness: a second evolve of a population of ten has returned; the
\* randomised fitness function has scored every new individual below the
\* best of the population, and the elite alone keeps the best fitness.
BestNeverRegressesWitness ==
    /\ pc = "evolve_returned"
    /\ evolves = 2
    /\ Len(pop) = 10
    /\ pop[1].fitness = 1
    /\ returned[1] = pop[1]
    /\ \A j \in 2 .. 10 : returned[j].fitness = 0

Max(a, b) == IF a > b THEN a ELSE b

\* C15: a call of execute on a program of at least one opcode ends, by
\* returning or in a panic; it never has issued more than max(max_steps, 0)
\* instructions, the instructions issued and the steps remaining adding up
\* to the budget; and with max_steps = 0 it returns Timeout with no
\* instruction issued and the memory and the stack as SVM::new made them.
StepBound ==
    /\ [](Len(program) >= 1 =>
             /\ vm.stats.instructions_issued <= Max(max_steps, 0)
             /\ vm_pc \in {"execute", "returned"} =>
                   /\ remaining_steps >= 0 \/ remaining_steps = max_steps
                   /\ vm.stats.instructions_issued = max_steps - remaining_steps
             /\ vm_pc = "returned" /\ max_steps = 0 =>
                   /\ exit_type = "Timeout"
                   /\ vm.stats.instructions_issued = 0
                   /\ vm.stack = <<>>
                   /\ \A i \in 1 .. Len(vm.memory) : vm.memory[i] = 0)
    /\ (Len(program) >= 1 => <>(vm_pc \in {"returned", "panicked"}))

\* C15 witness: a program that loops and has no Abort has used up a budget
\* of MaxSteps steps and returned Timeout.
StepBoundWitness ==
    /\ vm_pc = "returned"
    /\ program = <<OpCode("Push", 1), OpCode("JumpRel", -1)>>
    /\ max_steps = MaxSteps
    /\ vm.stats.instructions_issued = MaxSteps
    /\ exit_type = "Timeout"

\* C16 helpers: the index execute fetches at when the pointer is ip, a turn
\* of the loop, and whether an address is outside the memory.
FetchedAt == IF ip >= 0 /\ ip < Len(program) THEN ip ELSE 0
LoopTurn == vm_pc = "execute" /\ vm'.stats.instructions_issued # vm.stats.instructions_issued
OutsideMemory(address) == address < 0 \/ address >= Len(vm.memory)

AbortStops ==
    /\ [](Len(program) >= 1 =>
             /\ (exit_type = "Abort") <=> done
             /\ done => program[ip].code = "Abort"
             /\ vm_pc = "returned" /\ ~done =>
                   vm.stats.instructions_issued = Max(max_steps, 0)
             /\ program = ExampleProgram /\ max_steps >= 4 /\ vm.capacity >= 2
                /\ vm_pc = "returned" =>
                   /\ exit_type = "Abort"
                   /\ vm.stats.instructions_issued = 4
                   /\ vm.stack = <<5>>)
    /\ [][vm_pc = "execute" /\ vm_pc' = "execute" /\ Len(program) >= 1 =>
             (done' <=> program[bound_ip(ip, Len(program)) + 1].code = "Abort")]_vars
    /\ [][done => vm' = vm /\ exit_type' = "Abort"]_vars

\* C17 witness: the example program has returned Abort from a budget of
\* MaxSteps, having issued 4 instructions and left 5 on the stack.
AbortStopsWitness ==
    /\ vm_pc = "returned"
    /\ program = ExampleProgram
    /\ max_steps = MaxSteps
    /\ exit_type = "Abort"
    /\ vm.stats.instructions_issued = 4
    /\ vm.stack = <<5>>

\* The value [Push x, Push y, op] leaves on the stack.
ArithResult(code, x, y) ==
    CASE code = "Add" -> wrapping_add(y, x)
      [] code = "Sub" -> wrapping_sub(y, x)
      [] code = "Mult" -> wrapping_mul(y, x)
      [] code = "Div" -> IF x = 0 THEN I32_MAX ELSE wrapping_div(y, x)

\* C18: the arithmetic instructions never fault: [Push x, Push y, op] runs
\* without a panic, and once its three instructions are issued on an SVM
\* with room for two values the stack holds the one value y op x wrapped
\* to an i32, the
\* value popped first being the left operand and the dividend; Div gives
\* I32_MAX for a divisor of 0 and I32_MIN for I32_MIN / -1, and rounds
\* towards zero.
ArithmeticWraps ==
    /\ vm_pc # "panicked"
    /\ vm.stats.instructions_issued = 3 /\ vm.capacity >= 2 =>
          LET x == program[1].literal
              y == program[2].literal
              code == program[3].code
              Is(c, l, r, v) == code = c /\ y = l /\ x = r => vm.stack = <<v>>
          IN  /\ vm.stack = <<ArithResult(code, x, y)>>
              /\ vm.stack[1] \in I32_MIN .. I32_MAX
              /\ Is("Add", I32_MAX, 1, I32_MIN)
              /\ Is("Add", I32_MIN, -1, I32_MAX)
              /\ Is("Add", I32_MAX, I32_MAX, -2)
              /\ Is("Sub", I32_MIN, 1, I32_MAX)
              /\ Is("Sub", 2, 3, -1)
              /\ Is("Sub", 0, I32_MIN, I32_MIN)
              /\ Is("Mult", I32_MAX, 2, -2)
              /\ Is("Mult", 65536, 65536, 0)
              /\ Is("Mult", I32_MIN, -1, I32_MIN)
              /\ Is("Mult", I32_MAX, I32_MAX, 1)
              /\ Is("Mult", -7, 3, -21)
              /\ Is("Div", I32_MIN, -1, I32_MIN)
              /\ Is("Div", -7, 2, -3)
              /\ Is("Div", 3, 65536, 0)
              /\ Is("Div", 65536, -7, -9362)
              /\ Is("Div", I32_MAX, I32_MIN, 0)
              /\ Is("Div", 3, 0, I32_MAX)
              /\ Is("Div", 0, 3, 0)

\* C18 witness: [Push -1, Push I32_MIN, Div] has returned with I32_MIN on
\* the stack.
ArithmeticWrapsWitness ==
    /\ vm_pc = "returned"
    /\ program = <<OpCode("Push", -1), OpCode("Push", I32_MIN), OpCode("Div", 0)>>
    /\ vm.stack = <<I32_MIN>>

\* C19 helpers: c is p with one opcode replaced by one of OpCode::rand, with
\* one opcode deleted, with one opcode of OpCode::rand appended.
OneReplaced(p, c) ==
    /\ Len(c) = Len(p)
    /\ \E i \in 1 .. Len(p) :
          /\ c[i] \in OpCode_rand
          /\ \A j \in 1 .. Len(p) : j # i => c[j] = p[j]
OneDeleted(p, c) ==
    /\ Len(c) = Len(p) - 1
    /\ \E i \in 1 .. Len(p) :
          \A j \in 1 .. Len(c) : c[j] = (IF j < i THEN p[j] ELSE p[j + 1])
OneAppended(p, c) ==
    /\ Len(c) = Len(p) + 1
    /\ c[Len(c)] \in OpCode_rand
    /\ \A j \in 1 .. Len(p) : c[j] = p[j]

\* C19: every mutate call (the engine's, or the one Generator::evolve makes)
\* leaves the individual it is called on as it was and returns one whose ops
\* are, exactly one of: the parent's with one opcode replaced; the parent's
\* with one opcode deleted, the parent having more than 2; the parent's with
\* one opcode appended.  Generator::generate returns 5 to 24 opcodes, so every
\* individual made has at least 2 opcodes, and the program execute is given
\* is the individual's and is not empty.
MutateOneEdit ==
    /\ [][mutations' # mutations =>
            /\ parent' = subject
            /\ Cardinality({k \in 1 .. 3 :
                    \/ k = 1 /\ OneReplaced(subject.ops, subject'.ops)
                    \/ k = 2 /\ OneDeleted(subject.ops, subject'.ops)
                             /\ Len(subject.ops) > 2
                    \/ k = 3 /\ OneAppended(subject.ops, subject'.ops)}) = 1]_vars
    /\ [][calc_pc = "none" /\ calc_pc' # "none" =>
            Len(subject'.ops) \in 5 .. 24]_vars
    /\ [](calc_pc # "none" => Len(subject.ops) >= 2)
    /\ [](vm_pc # "idle" => program = subject.ops /\ Len(program) >= 2)

\* C19 witness: an individual of 2 opcodes has been mutated, which appended
\* an opcode or replaced one, and execute has run the result.
MutateOneEditWitness ==
    /\ calc_pc = "scoring"
    /\ vm_pc = "returned"
    /\ Len(parent.ops) = 2
    /\ Len(subject.ops) \in {2, 3}
    /\ vm.stats.instructions_issued >= 1

\* C20 helpers: the positions where the candidate differs from the target,
\* and the sum of the distances over the positions from i on.
DiffPositions == {i \in 1 .. 10 : s_genes[i] # phrase[i]}
RECURSIVE Distance(_)
Distance(i) ==
    IF i > 10
    THEN 0
    ELSE (IF phrase[i] >= s_genes[i]
          THEN phrase[i] - s_genes[i]
          ELSE s_genes[i] - phrase[i]) + Distance(i + 1)

\* C20: the closure string_fitness makes for a target phrase of 10 letters
\* a-z scores a candidate 10 minus the sum over the 10 positions of the
\* distance between the target's byte and the candidate's: the target scores
\* 10, and a candidate differing in one letter, by d, scores 10 - d.
StringFitnessDistance ==
    str_pc = "scored" =>
        /\ Len(phrase) = 10
        /\ \A i \in 1 .. 10 : phrase[i] \in LowerA .. LowerZ
        /\ s_score = 10 - Distance(1)
        /\ s_genes = phrase => s_score = 10
        /\ \A i \in 1 .. 10 : \A d \in 1 .. 25 :
              /\ DiffPositions = {i}
              /\ s_genes[i] \in {phrase[i] - d, phrase[i] + d}
              => s_score = 10 - d

\* C20 witness: a candidate that differs from the target in one letter, by
\* 25, has been scored -15.
StringFitnessDistanceWitness ==
    /\ str_pc = "scored"
    /\ Cardinality(DiffPositions) = 1
    /\ s_score = -15

\* C21 helpers.  A check of the loop body is a step from "loop" with g in
\* the range; after it main has stopped evolving ("after") or calls evolve.
\* The parts of the statement that do not name the number of evolve calls:
\* the loop breaks at a check exactly when that check is the 100th in a row
\* to find the best fitness >= 1.9, the count reported is the number of
\* evolve calls plus 1, and the loop comes to its end: each evolve call is
\* followed by the check of a greater g, which stays in the range.
CalcMainStreak ==
    /\ [][main_pc = "loop" /\ g < max_generations /\ pop_len >= 1 =>
            /\ main_pc' \in {"after", "evolve"}
            /\ main_pc' = "after" <=> streak' = 100
            /\ streak' = (IF best = "high" THEN streak + 1 ELSE 0)]_vars
    /\ [](main_pc \in {"after", "done"} => generations = evolves + 1)
    /\ [][main_pc = "evolve" /\ pop_len >= 1 => main_pc' = "loop" /\ g' = g + 1]_vars
    /\ [](main_pc = "loop" => g <= Max(max_generations, 1))

\* The number of evolve calls is at most limit, and is limit when the loop
\* has ended without a streak of 100.
EvolveCallsWithin(limit) ==
    pop_len >= 1 =>
        /\ evolves <= limit
        /\ main_pc \in {"after", "done"} /\ streak < 100 => evolves = limit

\* C21 as stated: with a population of at least one individual, main of
\* ga_calc stops evolving at the first check that is the 100th in a row to
\* find the best fitness >= 1.9, and otherwise after exactly
\* max_generations - 1 evolve calls, never makes more than
\* max_generations - 1 of them, and reports their number plus 1.
CalcMainStopsAsStated ==
    /\ CalcMainStreak
    /\ []EvolveCallsWithin(max_generations - 1)

\* C21, amended: the same with max(max_generations - 1, 0) for the number
\* of evolve calls, the range 1..max_generations being empty for
\* --max-generations 0 as it is for 1.
CalcMainStops ==
    /\ CalcMainStreak
    /\ []EvolveCallsWithin(Max(max_generations - 1, 0))

\* C21 witness: after a check that found the best fitness below 1.9, 100
\* checks in a row found it >= 1.9 and the loop broke, short of the
\* max_generations - 1 evolve calls.
CalcMainStopsWitness ==
    /\ main_pc = "done"
    /\ pop_len >= 1
    /\ streak = 100
    /\ need_matches = 0
    /\ evolves = 100
    /\ generations = 101
    /\ evolves < max_generations - 1

====
